---- MODULE Spec2Model ----
(***************************************************************************)
(* Model of the detection-to-response pipeline of the intrusion detection  *)
(* system: nids/intrusion_prevention.py (IntrusionPrevention),             *)
(* "Alert system/AlertEngine.py" (AlertEngine), examples/auto_blocking.py  *)
(* (CustomThreatResponse) and nids/detection_engine.py (DetectionEngine).  *)
(*                                                                         *)
(* Strings are sequences of one-character tokens; "NL" is the newline      *)
(* character and "SP" a blank.  Probabilities, confidences and threat      *)
(* scores are in thousandths.                                              *)
(***************************************************************************)
EXTENDS Integers, Sequences, FiniteSets, TLC

\* ------------------------------------------------------------------ strings

Digits == {"0", "1", "2", "3", "4", "5", "6", "7", "8", "9"}

Whitespace == {"NL", "SP"}

DigitVal(c) ==
    CASE c = "0" -> 0 [] c = "1" -> 1 [] c = "2" -> 2 [] c = "3" -> 3
      [] c = "4" -> 4 [] c = "5" -> 5 [] c = "6" -> 6 [] c = "7" -> 7
      [] c = "8" -> 8 [] c = "9" -> 9

\* str.split(sep): the pieces between the separators, empty pieces kept.
RECURSIVE SplitFrom(_, _, _)
SplitFrom(s, sep, cur) ==
    IF s = <<>> THEN <<cur>>
    ELSE IF Head(s) = sep THEN <<cur>> \o SplitFrom(Tail(s), sep, <<>>)
    ELSE SplitFrom(Tail(s), sep, Append(cur, Head(s)))

Split(s, sep) == SplitFrom(s, sep, <<>>)

\* str.strip(): leading and trailing whitespace removed.
RECURSIVE LStrip(_)
LStrip(s) ==
    IF s # <<>> /\ Head(s) \in Whitespace THEN LStrip(Tail(s)) ELSE s

RECURSIVE RStrip(_)
RStrip(s) ==
    IF s # <<>> /\ s[Len(s)] \in Whitespace
    THEN RStrip(SubSeq(s, 1, Len(s) - 1)) ELSE s

Strip(s) == RStrip(LStrip(s))

AllDigits(s) == \A i \in 1..Len(s) : s[i] \in Digits

\* int(part): surrounding whitespace is ignored, the rest must be digits
\* (ParsesAsInt); the value is the decimal number.
ParsesAsInt(part) == Strip(part) # <<>> /\ AllDigits(Strip(part))

RECURSIVE DecVal(_)
DecVal(ds) ==
    IF ds = <<>> THEN 0
    ELSE 10 * DecVal(SubSeq(ds, 1, Len(ds) - 1)) + DigitVal(ds[Len(ds)])

IntOf(part) == DecVal(Strip(part))

\* re.match(r'^(\d{1,3}\.){3}\d{1,3}$', s): in Python "$" matches at the end
\* of the string and also just before a newline that ends the string.
RegexBody(s) ==
    IF s # <<>> /\ s[Len(s)] = "NL" THEN SubSeq(s, 1, Len(s) - 1) ELSE s

MatchesIpv4Pattern(s) ==
    \E b \in {s, RegexBody(s)} :
        LET fields == Split(b, ".")
        IN  /\ Len(fields) = 4
            /\ \A i \in 1..4 : Len(fields[i]) \in 1..3 /\ AllDigits(fields[i])

is_valid_ip(s) ==
    /\ MatchesIpv4Pattern(s)
    /\ LET parts == Split(s, ".")
       IN  \A i \in 1..Len(parts) :
               ParsesAsInt(parts[i]) /\ IntOf(parts[i]) \in 0..255

\* json.dump / json.load of a string: a newline is written as the two
\* characters backslash ("BS") and "n", a backslash as two backslashes.
RECURSIVE JsonEncodeStr(_)
JsonEncodeStr(s) ==
    IF s = <<>> THEN <<>>
    ELSE (CASE Head(s) = "NL" -> <<"BS", "n">>
            [] Head(s) = "BS" -> <<"BS", "BS">>
            [] OTHER -> <<Head(s)>>) \o JsonEncodeStr(Tail(s))

RECURSIVE JsonDecodeStr(_)
JsonDecodeStr(s) ==
    IF s = <<>> THEN <<>>
    ELSE IF Head(s) = "BS" /\ Len(s) >= 2
         THEN <<(IF s[2] = "n" THEN "NL" ELSE s[2])>> \o JsonDecodeStr(Tail(Tail(s)))
         ELSE <<Head(s)>> \o JsonDecodeStr(Tail(s))

\* All the orders in which a set can be iterated.
RECURSIVE Orderings(_)
Orderings(S) ==
    IF S = {} THEN {<<>>}
    ELSE UNION {{<<x>> \o o : o \in Orderings(S \ {x})} : x \in S}

RECURSIVE Concat(_)
Concat(ss) == IF ss = <<>> THEN <<>> ELSE Head(ss) \o Concat(Tail(ss))

\* ------------------------------------------------------------------ inputs

ipA == <<"1", ".", "0", ".", "0", ".", "5">>
ipB == <<"1", ".", "0", ".", "0", ".", "6">>
ipNL == <<"1", ".", "0", ".", "0", ".", "5", "NL">>
ipBigOctet == <<"1", ".", "0", ".", "0", ".", "2", "5", "6">>
ipInject == <<"1", ".", "0", ".", "0", ".", "5", ";", "x">>
UnknownSrc == <<"U", "n", "k", "n", "o", "w", "n">>
EmptySrc == <<>>

\* Every source identifier the model passes to the program.
Sources == {ipA, ipB, ipNL, ipBigOctet, ipInject, UnknownSrc, EmptySrc}

\* The identifiers given to block_ip / unblock_ip by a caller.
BlockArgs == {ipA, ipB, ipNL, ipInject}

\* The source_ip values of the alerts given to process_alert.
AlertSources == {ipA, UnknownSrc, EmptySrc}

Severities == {"CRITICAL", "HIGH", "MEDIUM", "LOW"}

\* The severity of the model's direct block_ip calls (the default of the
\* parameter) and of its alerts.
CallSeverities == {"MEDIUM"}
AlertSeverities == {"HIGH"}

\* is_valid_ip over the model's identifiers, evaluated once.
ValidSources == {s \in Sources : is_valid_ip(s)}

MaxHistory == 2
MaxAlerts == 2
BlockThresholds == {2}

\* ------------------------------------------------------------------- state

VARIABLES
    auto_block,          \* IntrusionPrevention.auto_block
    block_threshold,     \* IntrusionPrevention.block_threshold
    blocked_ips,         \* IntrusionPrevention.blocked_ips
    ip_alert_count,      \* IntrusionPrevention.ip_alert_count (defaultdict(int))
    block_history,       \* IntrusionPrevention.block_history
    file_blocked_ips,    \* blocked_ips.txt: [exists, text]
    file_block_history,  \* alerts/block_history.json: [exists, records]
    is_posix,            \* os.name == 'posix'
    disk_faulty,         \* whether writing the two files can fail
    iptables_calls,      \* the addresses given to _block_with_iptables / _unblock_with_iptables
    which_iptables,      \* what subprocess.run(['which', 'iptables']) does on this host
    writer,              \* the _save_blocked_ips in progress, when its steps are followed
    window_seconds,      \* AlertEngine.window_seconds
    flow_threshold,      \* AlertEngine.flow_threshold
    confidence_threshold,\* AlertEngine.confidence_threshold, in thousandths
    suspicious_flows,    \* AlertEngine.suspicious_flows (defaultdict(deque))
    now,                 \* the clock read by time.time()
    ae_events,           \* history: the timestamps of all recorded suspicious flows
    ae_alerts,           \* history: the number of alerts returned, per source
    ip_threat_scores,    \* CustomThreatResponse.ip_threat_scores (defaultdict(float)), in thousandths
    ip_first_seen,       \* CustomThreatResponse.ip_first_seen, its keys
    ctr_blocked_ips,     \* CustomThreatResponse.blocked_ips
    ctr_alert_count,     \* history: the alerts CustomThreatResponse scored, per source
    threshold,           \* DetectionEngine.threshold, in thousandths
    stats,               \* DetectionEngine.stats
    alert_queue,         \* DetectionEngine.alert_queue
    alert_log,           \* alerts/alerts.json
    is_running,          \* DetectionEngine.is_running
    threads,             \* the Thread objects start() has created, in order
    packet_queue,        \* the Queue the capture fills and the consumer drains
    main_pc,             \* the main thread: ready, in its loop (check, drain, sleep), joining or stopped
    running,             \* main.py's global flag, cleared by the SIGINT handler
    handed,              \* history: the alert_ids given to prevention.process_alert, in order
    call                 \* the last call made and what it returned

ipsVars == <<auto_block, block_threshold, blocked_ips, ip_alert_count,
             block_history, file_blocked_ips, file_block_history, is_posix,
             disk_faulty, iptables_calls, which_iptables, writer>>

aeVars == <<window_seconds, flow_threshold, confidence_threshold,
            suspicious_flows, now, ae_events, ae_alerts>>

ctrVars == <<ip_threat_scores, ip_first_seen, ctr_blocked_ips, ctr_alert_count>>

deVars == <<threshold, stats, alert_queue, alert_log, is_running, threads,
            packet_queue, main_pc>>

mainVars == <<running, handed>>

vars == <<ipsVars, aeVars, ctrVars, deVars, mainVars, call>>

\* ---------------------------------------------------- IntrusionPrevention

\* _save_blocked_ips: the text of blocked_ips.txt for one iteration order.
BlockedIpsText(order) ==
    Concat([i \in 1..Len(order) |-> Append(order[i], "NL")])

HistoryJson(history) ==
    [i \in 1..Len(history) |->
        [history[i] EXCEPT !.ip = JsonEncodeStr(history[i].ip)]]

\* _save_blocked_ips swallows every exception: "ips_fail" is open() of
\* blocked_ips.txt failing, "history_fail" the history file not being written
\* after blocked_ips.txt was.
SaveOutcomes ==
    IF disk_faulty THEN {"ok", "ips_fail", "history_fail"} ELSE {"ok"}

SavedIpsFile(outcome, order) ==
    IF outcome = "ips_fail" THEN file_blocked_ips
    ELSE [exists |-> TRUE, text |-> BlockedIpsText(order)]

SavedHistoryFile(outcome, history) ==
    IF outcome = "ok" THEN [exists |-> TRUE, records |-> HistoryJson(history)]
    ELSE file_block_history

\* _load_blocked_ips: the lines of the file, stripped, the empty ones skipped.
LoadedIps(file) ==
    IF ~file.exists THEN {}
    ELSE LET lines == Split(file.text, "NL")
         IN  {Strip(lines[i]) : i \in {j \in 1..Len(lines) : Strip(lines[j]) # <<>>}}

LoadedHistory(file) ==
    IF ~file.exists THEN <<>>
    ELSE [i \in 1..Len(file.records) |->
            [file.records[i] EXCEPT !.ip = JsonDecodeStr(file.records[i].ip)]]

BlockRecord(ip, severity, counts) ==
    [ip |-> ip, severity |-> severity, alert_count |-> counts[ip],
     method |-> IF auto_block THEN "auto" ELSE "manual"]

\* The outcomes of `which iptables`: found (return code 0), not found (another
\* return code), or subprocess.run raising (no `which` on the host).
WhichOutcomes == {"found", "not_found", "raises"}

\* _block_with_iptables with no try/except around its body.
block_with_iptables_Unguarded(env) ==
    IF env = "raises" THEN "raised" ELSE "returned"

\* _block_with_iptables: every exception is caught and logged, and the rule
\* itself is only built and logged, never executed.
block_with_iptables(env) == "returned"

\* _unblock_with_iptables: builds and logs the rule inside a try/except.
unblock_with_iptables(env) == "returned"

\* block_ip without its "already blocked" test.
BlockIpResult_NoBlockedTest(ip, severity, counts, outcome, order) ==
    IF ip \notin ValidSources
    THEN [ret |-> FALSE, log |-> "invalid", blocked |-> blocked_ips,
          history |-> block_history, fips |-> file_blocked_ips,
          fhist |-> file_block_history, ipt |-> iptables_calls]
    ELSE LET h == Append(block_history, BlockRecord(ip, severity, counts))
             raised == is_posix /\ block_with_iptables(which_iptables) = "raised"
         IN  [ret |-> ~raised, log |-> IF raised THEN "error" ELSE "blocked",
              blocked |-> blocked_ips \cup {ip},
              history |-> h,
              fips |-> SavedIpsFile(outcome, order),
              fhist |-> SavedHistoryFile(outcome, h),
              ipt |-> IF is_posix THEN iptables_calls \cup {ip} ELSE iptables_calls]

\* The body of block_ip, as the values it leaves behind and returns.
BlockIpResult(ip, severity, counts, outcome, order) ==
    LET same == [ret |-> FALSE, log |-> "", blocked |-> blocked_ips,
                 history |-> block_history, fips |-> file_blocked_ips,
                 fhist |-> file_block_history, ipt |-> iptables_calls]
    IN  IF ip \notin ValidSources THEN [same EXCEPT !.log = "invalid"]
        ELSE IF ip \in blocked_ips THEN [same EXCEPT !.log = "already blocked"]
        ELSE LET h == Append(block_history, BlockRecord(ip, severity, counts))
                 \* an exception out of _block_with_iptables would reach
                 \* block_ip's own handler, which logs and returns False
                 raised == is_posix /\ block_with_iptables(which_iptables) = "raised"
             IN  [ret |-> ~raised, log |-> IF raised THEN "error" ELSE "blocked",
                  blocked |-> blocked_ips \cup {ip},
                  history |-> h,
                  fips |-> SavedIpsFile(outcome, order),
                  fhist |-> SavedHistoryFile(outcome, h),
                  ipt |-> IF is_posix
                          THEN iptables_calls \cup {ip}
                          ELSE iptables_calls]

block_ip(ip, severity) ==
    /\ (ip \in ValidSources /\ ip \notin blocked_ips) => Len(block_history) < MaxHistory
    /\ \E outcome \in SaveOutcomes, order \in Orderings(blocked_ips \cup {ip}) :
        LET r == BlockIpResult(ip, severity, ip_alert_count, outcome, order)
        IN  /\ blocked_ips' = r.blocked
            /\ block_history' = r.history
            /\ file_blocked_ips' = r.fips
            /\ file_block_history' = r.fhist
            /\ iptables_calls' = r.ipt
            /\ call' = [op |-> "block_ip", ip |-> ip, ret |-> r.ret, log |-> r.log,
                        save |-> IF r.log \in {"blocked", "error"} THEN outcome
                                 ELSE "none"]
    /\ UNCHANGED <<auto_block, block_threshold, ip_alert_count, is_posix, disk_faulty,
                   which_iptables, writer>>
    /\ UNCHANGED <<aeVars, mainVars, ctrVars, deVars>>

\* self.blocked_ips.remove(ip_address), with every entry dropped instead.
RemoveBlocked_Clear(blocked, ip) == {}

\* self.blocked_ips.remove(ip_address)
RemoveBlocked(blocked, ip) == blocked \ {ip}

unblock_ip(ip) ==
    /\ IF ip \notin ValidSources \/ ip \notin blocked_ips
       THEN /\ call' = [op |-> "unblock_ip", ip |-> ip, ret |-> FALSE,
                        log |-> IF ip \notin ValidSources THEN "invalid" ELSE "not blocked",
                        save |-> "none"]
            /\ UNCHANGED <<blocked_ips, ip_alert_count, file_blocked_ips,
                           file_block_history, iptables_calls>>
       ELSE \E outcome \in SaveOutcomes, order \in Orderings(blocked_ips \ {ip}) :
            /\ blocked_ips' = RemoveBlocked(blocked_ips, ip)
            /\ ip_alert_count' = [ip_alert_count EXCEPT ![ip] = 0]
            /\ file_blocked_ips' = SavedIpsFile(outcome, order)
            /\ file_block_history' = SavedHistoryFile(outcome, block_history)
            /\ iptables_calls' = IF is_posix
                                 THEN iptables_calls \cup {ip}
                                 ELSE iptables_calls
            /\ LET raised == is_posix
                              /\ unblock_with_iptables(which_iptables) = "raised"
               IN  call' = [op |-> "unblock_ip", ip |-> ip, ret |-> ~raised,
                            log |-> IF raised THEN "error" ELSE "unblocked",
                            save |-> outcome]
    /\ UNCHANGED <<auto_block, block_threshold, block_history, is_posix, disk_faulty,
                   which_iptables, writer>>
    /\ UNCHANGED <<aeVars, mainVars, ctrVars, deVars>>

Falsy(source_ip) == source_ip = EmptySrc

\* The threshold test with ">" for ">=".
ThresholdReached_Above(count, limit) == count > limit

\* self.ip_alert_count[source_ip] >= self.block_threshold
ThresholdReached(count, limit) == count >= limit

\* The body of process_alert(alert).
ProcessAlert(source_ip, severity) ==
    IF Falsy(source_ip) \/ source_ip = UnknownSrc
    THEN /\ call' = [op |-> "process_alert", ip |-> source_ip, ret |-> FALSE,
                     log |-> "", save |-> "none"]
         /\ UNCHANGED ipsVars
    ELSE /\ ip_alert_count[source_ip] < MaxAlerts
         /\ LET counts == [ip_alert_count EXCEPT ![source_ip] = @ + 1]
            IN  /\ ip_alert_count' = counts
                /\ IF /\ auto_block
                      /\ ThresholdReached(counts[source_ip], block_threshold)
                      /\ source_ip \notin blocked_ips
                   THEN /\ source_ip \in ValidSources => Len(block_history) < MaxHistory
                        /\ \E outcome \in SaveOutcomes,
                              order \in Orderings(blocked_ips \cup {source_ip}) :
                            LET r == BlockIpResult(source_ip, severity, counts,
                                                   outcome, order)
                            IN  /\ blocked_ips' = r.blocked
                                /\ block_history' = r.history
                                /\ file_blocked_ips' = r.fips
                                /\ file_block_history' = r.fhist
                                /\ iptables_calls' = r.ipt
                                /\ call' = [op |-> "process_alert", ip |-> source_ip,
                                            ret |-> r.ret, log |-> r.log,
                                            save |-> IF r.log \in {"blocked", "error"}
                                                     THEN outcome ELSE "none"]
                   ELSE /\ call' = [op |-> "process_alert", ip |-> source_ip,
                                    ret |-> FALSE, log |-> "", save |-> "none"]
                        /\ UNCHANGED <<blocked_ips, block_history, file_blocked_ips,
                                       file_block_history, iptables_calls>>
         /\ UNCHANGED <<auto_block, block_threshold, is_posix, disk_faulty,
                        which_iptables, writer>>

process_alert(source_ip, severity) ==
    /\ ProcessAlert(source_ip, severity)
    /\ UNCHANGED <<aeVars, mainVars, ctrVars, deVars>>

\* IntrusionPrevention.__init__ in a new process: the state is rebuilt from
\* the two files.
Restart ==
    /\ blocked_ips' = LoadedIps(file_blocked_ips)
    /\ block_history' = LoadedHistory(file_block_history)
    /\ ip_alert_count' = [s \in Sources |-> 0]
    /\ call' = [op |-> "init", ip |-> EmptySrc, ret |-> TRUE, log |-> "",
                save |-> "none"]
    /\ UNCHANGED <<aeVars, mainVars, ctrVars, deVars>>
    /\ UNCHANGED <<auto_block, block_threshold, file_blocked_ips,
                   file_block_history, is_posix, disk_faulty, iptables_calls,
                   which_iptables, writer>>

InitIPS ==
    /\ auto_block \in BOOLEAN
    /\ block_threshold \in BlockThresholds
    /\ blocked_ips = {}
    /\ ip_alert_count = [s \in Sources |-> 0]
    /\ block_history = <<>>
    /\ file_blocked_ips = [exists |-> FALSE, text |-> <<>>]
    /\ file_block_history = [exists |-> FALSE, records |-> <<>>]
    /\ is_posix \in BOOLEAN
    /\ iptables_calls = {}
    /\ writer = [pc |-> "idle"]

\* ------------------------------------------------------------ AlertEngine

\* The constructor arguments of the model's AlertEngines; the first is the
\* default (window_seconds=5, flow_threshold=10, confidence_threshold=0.7).
AEConfigs == {[W |-> 5, K |-> 10, T |-> 700], [W |-> 1, K |-> 2, T |-> 700]}

Labels == {"Benign", "DDoS"}

\* The classifier's confidence (proba.max()), in thousandths.
Confidences == {699, 700}

\* round(confidence, 2), in hundredths (no input of the model is a tie).
Round2(confidence) == (confidence + 5) \div 10

MaxTime == 6
MaxEvents == 10
MaxTimeMulti == 3
MaxEventsMulti == 3

\* With the default configuration the model follows one source, with the
\* small one two.
AESources == IF flow_threshold >= 10 THEN {ipA} ELSE {ipA, ipB}
AEMaxTime == IF flow_threshold >= 10 THEN MaxTime ELSE MaxTimeMulti
AEMaxEvents == IF flow_threshold >= 10 THEN MaxEvents ELSE MaxEventsMulti

\* The eviction loop with ">=" for ">".
RECURSIVE Evict_AtBoundary(_, _, _)
Evict_AtBoundary(timestamps, t, window) ==
    IF timestamps # <<>> /\ t - Head(timestamps) >= window
    THEN Evict_AtBoundary(Tail(timestamps), t, window)
    ELSE timestamps

\* The eviction loop with "if" for "while".
Evict_Once(timestamps, t, window) ==
    IF timestamps # <<>> /\ t - Head(timestamps) > window
    THEN Tail(timestamps)
    ELSE timestamps

\* while timestamps and now - timestamps[0] > self.window_seconds: popleft()
RECURSIVE Evict(_, _, _)
Evict(timestamps, t, window) ==
    IF timestamps # <<>> /\ t - Head(timestamps) > window
    THEN Evict(Tail(timestamps), t, window)
    ELSE timestamps

NoAlert == [emitted |-> FALSE]

\* One deque shared by all sources.
WindowKey_Shared(src_ip) == ipA

\* timestamps = self.suspicious_flows[src_ip]: the deque of the flow's source.
WindowKey(src_ip) == src_ip

\* The alert condition with "==" for ">=": an alert only when the window
\* reaches the threshold, none while it stays above it.
AlertDue_OnCrossing(timestamps, k) == Len(timestamps) = k

\* if len(timestamps) >= self.flow_threshold
AlertDue(timestamps, k) == Len(timestamps) >= k

process_flow(src_ip, attack, confidence) ==
    /\ IF attack = "Benign" \/ confidence < confidence_threshold
       THEN /\ call' = [op |-> "process_flow", ip |-> src_ip, attack |-> attack,
                        confidence |-> confidence, t |-> now, recorded |-> FALSE,
                        alert |-> NoAlert]
            /\ UNCHANGED <<suspicious_flows, ae_events, ae_alerts>>
       ELSE /\ Len(ae_events[src_ip]) < AEMaxEvents
            /\ LET timestamps == Evict(Append(suspicious_flows[WindowKey(src_ip)], now),
                                       now, window_seconds)
                   alert == IF AlertDue(timestamps, flow_threshold)
                            THEN [emitted |-> TRUE, timestamp |-> now,
                                  src_ip |-> src_ip, attack_type |-> attack,
                                  count |-> Len(timestamps),
                                  confidence |-> Round2(confidence)]
                            ELSE NoAlert
               IN  /\ suspicious_flows' = [suspicious_flows EXCEPT
                                              ![WindowKey(src_ip)] = timestamps]
                   /\ ae_events' = [ae_events EXCEPT ![src_ip] = Append(@, now)]
                   /\ ae_alerts' = [ae_alerts EXCEPT
                                       ![src_ip] = @ + (IF alert.emitted THEN 1 ELSE 0)]
                   /\ call' = [op |-> "process_flow", ip |-> src_ip, attack |-> attack,
                               confidence |-> confidence, t |-> now, recorded |-> TRUE,
                               alert |-> alert]
    /\ UNCHANGED <<window_seconds, flow_threshold, confidence_threshold, now>>
    /\ UNCHANGED <<ipsVars, ctrVars, deVars, mainVars>>

\* Time passes between two calls.
Tick ==
    /\ now < AEMaxTime
    /\ now' = now + 1
    /\ call' = [op |-> "tick"]
    /\ UNCHANGED <<window_seconds, flow_threshold, confidence_threshold,
                   suspicious_flows, ae_events, ae_alerts>>
    /\ UNCHANGED <<ipsVars, ctrVars, deVars, mainVars>>

InitAE(configs) ==
    /\ \E c \in configs :
        /\ window_seconds = c.W
        /\ flow_threshold = c.K
        /\ confidence_threshold = c.T
    /\ suspicious_flows = [s \in Sources |-> <<>>]
    /\ now = 0
    /\ ae_events = [s \in Sources |-> <<>>]
    /\ ae_alerts = [s \in Sources |-> 0]

\* --------------------------------------------------- CustomThreatResponse

\* severity_weights.get(alert['severity'], 1.0)
SeverityWeight(severity) ==
    CASE severity = "CRITICAL" -> 5
      [] severity = "HIGH" -> 3
      [] severity = "MEDIUM" -> 2
      [] OTHER -> 1

\* An alert is a dict: keys is the set of keys it has, none the keys whose
\* value is None; a field outside keys, or inside none, holds a filler that is
\* never read.
HasValue(alert, key) == key \in alert.keys /\ key \notin alert.none

\* alert['protocol'] == 'TCP'
IsTcp(alert) == HasValue(alert, "protocol") /\ alert.protocol = "TCP"

\* calculate_threat_score raises: KeyError from alert['protocol'] when the key
\* is missing; TypeError from dst_port < 1024 when the protocol is TCP and
\* alert.get('destination_port', 0) is None.
ScoreRaises(alert) ==
    \/ "protocol" \notin alert.keys
    \/ IsTcp(alert) /\ "destination_port" \in alert.none

\* alert.get('destination_port', 0)
DstPort(alert) ==
    IF "destination_port" \in alert.keys THEN alert.destination_port ELSE 0

\* calculate_threat_score, in thousandths; probability is in thousandths.
calculate_threat_score(alert) ==
    alert.probability * 10 * SeverityWeight(alert.severity)
    + (IF IsTcp(alert)
       THEN IF DstPort(alert) \in {22, 23, 3389} THEN 5000
            ELSE IF DstPort(alert) < 1024 THEN 2000
            ELSE 0
       ELSE 0)

ScoreOf(scores, ip) == IF ip \in DOMAIN scores THEN scores[ip] ELSE 0

\* The accumulation with "=" for "+=".
Accumulate_Overwrite(scores, ip, threat_score) ==
    [s \in DOMAIN scores \cup {ip} |->
        IF s = ip THEN threat_score ELSE scores[s]]

\* self.ip_threat_scores[source_ip] += threat_score
Accumulate(scores, ip, threat_score) ==
    [s \in DOMAIN scores \cup {ip} |->
        IF s = ip THEN ScoreOf(scores, ip) + threat_score ELSE scores[s]]

\* should_block: the decision and its reason.  alert_count is the number of
\* keys of ip_threat_scores equal to ip.
should_block(scores, ip, current_score) ==
    LET total_score == ScoreOf(scores, ip)
        alert_count == Cardinality({s \in DOMAIN scores \cup {ip} : s = ip})
    IN  IF total_score >= 50000
        THEN [block |-> TRUE, reason |-> "High cumulative threat score"]
        ELSE IF current_score >= 40000
        THEN [block |-> TRUE, reason |-> "Critical threat detected"]
        ELSE IF alert_count >= 5
        THEN [block |-> TRUE, reason |-> "Repeated suspicious activity"]
        ELSE [block |-> FALSE, reason |-> "None"]

MaxCtrAlerts == 5

CtrAlertTotal(counts, S) ==
    LET RECURSIVE Sum(_)
        Sum(T) == IF T = {} THEN 0
                  ELSE LET x == CHOOSE y \in T : TRUE IN counts[x] + Sum(T \ {x})
    IN  Sum(S)

\* CustomThreatResponse.process_alert(alert, prevention)
ctr_process_alert(alert) ==
    /\ UNCHANGED <<aeVars, mainVars, deVars>>
    /\ IF Falsy(alert.source_ip) \/ alert.source_ip = UnknownSrc
       THEN /\ call' = [op |-> "ctr_process_alert", ip |-> alert.source_ip,
                        alert |-> alert, scored |-> FALSE, raised |-> FALSE]
            /\ UNCHANGED <<ipsVars, ctrVars>>
       ELSE IF ScoreRaises(alert)
       THEN /\ ip_first_seen' = ip_first_seen \cup {alert.source_ip}
            /\ call' = [op |-> "ctr_process_alert", ip |-> alert.source_ip,
                        alert |-> alert, scored |-> FALSE, raised |-> TRUE]
            /\ UNCHANGED <<ipsVars, ip_threat_scores, ctr_blocked_ips,
                           ctr_alert_count>>
       ELSE LET ip == alert.source_ip
                threat_score == calculate_threat_score(alert)
                scores == Accumulate(ip_threat_scores, ip, threat_score)
                decision == should_block(scores, ip, threat_score)
            IN  /\ CtrAlertTotal(ctr_alert_count, Sources) < MaxCtrAlerts
                /\ ip_first_seen' = ip_first_seen \cup {ip}
                /\ ip_threat_scores' = scores
                /\ ctr_alert_count' = [ctr_alert_count EXCEPT ![ip] = @ + 1]
                /\ IF decision.block /\ ip \notin ctr_blocked_ips
                   THEN /\ (ip \in ValidSources /\ ip \notin blocked_ips)
                                => Len(block_history) < MaxHistory
                        /\ \E outcome \in SaveOutcomes,
                              order \in Orderings(blocked_ips \cup {ip}) :
                            LET r == BlockIpResult(ip, alert.severity, ip_alert_count,
                                                   outcome, order)
                            IN  /\ blocked_ips' = r.blocked
                                /\ block_history' = r.history
                                /\ file_blocked_ips' = r.fips
                                /\ file_block_history' = r.fhist
                                /\ iptables_calls' = r.ipt
                                /\ ctr_blocked_ips' = IF r.ret
                                                      THEN ctr_blocked_ips \cup {ip}
                                                      ELSE ctr_blocked_ips
                                /\ call' = [op |-> "ctr_process_alert", ip |-> ip,
                                            alert |-> alert, raised |-> FALSE,
                                            scored |-> TRUE, score |-> threat_score,
                                            decision |-> decision,
                                            block_called |-> TRUE, ret |-> r.ret]
                   ELSE /\ call' = [op |-> "ctr_process_alert", ip |-> ip,
                                    alert |-> alert, raised |-> FALSE,
                                    scored |-> TRUE, score |-> threat_score,
                                    decision |-> decision,
                                    block_called |-> FALSE, ret |-> FALSE]
                        /\ UNCHANGED <<blocked_ips, block_history, file_blocked_ips,
                                       file_block_history, iptables_calls,
                                       ctr_blocked_ips>>
                /\ UNCHANGED <<auto_block, block_threshold, ip_alert_count,
                               is_posix, disk_faulty, which_iptables, writer>>

InitCTR ==
    /\ ip_threat_scores = <<>>
    /\ ip_first_seen = {}
    /\ ctr_blocked_ips = {}
    /\ ctr_alert_count = [s \in Sources |-> 0]

\* -------------------------------------------------------- DetectionEngine

\* _calculate_severity with ">" for ">=".
calculate_severity_Strict(probability) ==
    IF probability > 950 THEN "CRITICAL"
    ELSE IF probability > 850 THEN "HIGH"
    ELSE IF probability > 750 THEN "MEDIUM"
    ELSE "LOW"

\* _calculate_severity; probability is in thousandths.
calculate_severity(probability) ==
    IF probability >= 950 THEN "CRITICAL"
    ELSE IF probability >= 850 THEN "HIGH"
    ELSE IF probability >= 750 THEN "MEDIUM"
    ELSE "LOW"

MaxPackets == 4

\* The classifier on one packet: predict_proba gives the probability of class
\* 1, predict the class of the larger probability (class 0 on a tie).
Probabilities == {400, 699, 700, 960}

PredictionOf(probability) == IF probability > 500 THEN 1 ELSE 0

\* What can go wrong in one analysis: nothing, extract_features raising,
\* the classifier failing inside predict/predict_proba (each catches the
\* error and returns its default), or the model not being loadable (load()
\* raises out of predict).
Faults == {"none", "extract", "classifier", "load"}

\* The classifier failing closed: an error counts as certainly malicious.
Classify_FailClosed(probability, fault) ==
    IF fault = "classifier"
    THEN [prediction |-> 1, probability |-> 1000]
    ELSE [prediction |-> PredictionOf(probability), probability |-> probability]

\* model.predict and model.predict_proba: on an error inside them, 0 and 0.0.
Classify(probability, fault) ==
    IF fault = "classifier"
    THEN [prediction |-> 0, probability |-> 0]
    ELSE [prediction |-> PredictionOf(probability), probability |-> probability]

\* _log_alert: load the list in alerts/alerts.json, append, write it back.
log_alert(log, alert) == Append(log, alert)

\* The counters with the malicious packets left uncounted.
Counted_MaliciousUncounted(st, is_malicious) ==
    IF is_malicious
    THEN [st EXCEPT !.total_packets = @ + 1, !.alerts_generated = @ + 1]
    ELSE [st EXCEPT !.total_packets = @ + 1, !.normal_packets = @ + 1]

\* The counters after an analysis that classified its packet: total_packets
\* first, then malicious_packets and, in _generate_alert, alerts_generated,
\* or else normal_packets.
Counted(st, is_malicious) ==
    IF is_malicious
    THEN [st EXCEPT !.total_packets = @ + 1, !.malicious_packets = @ + 1,
                    !.alerts_generated = @ + 1]
    ELSE [st EXCEPT !.total_packets = @ + 1, !.normal_packets = @ + 1]

\* The body of analyze_packet(packet) with _generate_alert and _log_alert, on
\* behalf of caller `who` (0: a direct call, t: the t-th consumer thread).
AnalyzePacket(src_ip, probability, fault, who) ==
    IF fault \in {"extract", "load"}
    THEN /\ stats' = [stats EXCEPT !.total_packets = @ + 1]
         /\ call' = [op |-> "analyze_packet", ok |-> FALSE, fault |-> fault,
                     who |-> who]
         /\ UNCHANGED <<alert_queue, alert_log>>
    ELSE LET c == Classify(probability, fault)
             is_malicious == c.probability >= threshold
             alert == [alert_id |-> stats.alerts_generated + 1,
                       severity |-> calculate_severity(c.probability),
                       probability |-> c.probability,
                       source_ip |-> src_ip]
         IN  /\ stats' = Counted(stats, is_malicious)
             /\ alert_queue' = IF is_malicious THEN Append(alert_queue, alert)
                               ELSE alert_queue
             /\ alert_log' = IF is_malicious THEN log_alert(alert_log, alert)
                             ELSE alert_log
             /\ call' = [op |-> "analyze_packet", ok |-> TRUE, fault |-> fault,
                         who |-> who,
                         prediction |-> c.prediction, probability |-> c.probability,
                         is_malicious |-> is_malicious]

\* analyze_packet(packet) called directly.
analyze_packet(src_ip, probability, fault) ==
    /\ stats.total_packets < MaxPackets
    /\ AnalyzePacket(src_ip, probability, fault, 0)
    /\ UNCHANGED <<ipsVars, aeVars, mainVars, ctrVars, threshold>>
    /\ UNCHANGED <<is_running, threads, packet_queue, main_pc>>

MaxLog == 2

\* DetectionEngine.__init__ in a new process: the counters start at zero and
\* the queue is new, alerts/alerts.json is what the earlier runs left.
NewEngine ==
    /\ Len(alert_log) < MaxLog
    /\ stats' = [total_packets |-> 0, normal_packets |-> 0,
                 malicious_packets |-> 0, alerts_generated |-> 0]
    /\ alert_queue' = <<>>
    /\ is_running' = FALSE
    /\ threads' = <<>>
    /\ main_pc' = "ready"
    /\ call' = [op |-> "new_engine"]
    /\ UNCHANGED <<threshold, alert_log, packet_queue>>
    /\ UNCHANGED <<ipsVars, aeVars, mainVars, ctrVars>>

MaxThreads == 2
MaxQueued == 2

Live(t) == threads[t].pc # "done"

LiveThreads == {t \in 1..Len(threads) : Live(t)}

InFlight == {t \in 1..Len(threads) : threads[t].pc = "analyzing"}

\* DetectionEngine.start(packet_queue)
start ==
    /\ main_pc # "joining"
    /\ IF is_running
       THEN /\ call' = [op |-> "start", started |-> FALSE]
            /\ UNCHANGED <<is_running, threads, main_pc>>
       ELSE /\ Len(threads) < MaxThreads
            /\ is_running' = TRUE
            /\ threads' = Append(threads, [pc |-> "check"])
            /\ main_pc' = "ready"
            /\ call' = [op |-> "start", started |-> TRUE]
    /\ UNCHANGED <<threshold, stats, alert_queue, alert_log, packet_queue>>
    /\ UNCHANGED <<ipsVars, aeVars, mainVars, ctrVars>>

\* DetectionEngine.stop(), up to its join (detection_thread is the thread
\* created last).
stop_begin ==
    /\ main_pc # "joining"
    /\ IF is_running
       THEN /\ is_running' = FALSE
            /\ main_pc' = IF threads # <<>> THEN "joining" ELSE "stopped"
       ELSE /\ main_pc' = "stopped"
            /\ UNCHANGED is_running
    /\ call' = [op |-> "stop_begin"]
    /\ UNCHANGED <<threshold, stats, alert_queue, alert_log, threads, packet_queue>>
    /\ UNCHANGED <<ipsVars, aeVars, mainVars, ctrVars>>

\* join(timeout=2) returning: the thread has ended, or two seconds have gone
\* by.  A thread waiting in get(timeout=1) is back at its loop test within a
\* second, so only a thread inside analyze_packet can outlast the join.
stop_return ==
    /\ main_pc = "joining"
    /\ LET t == Len(threads)
       IN  /\ threads[t].pc \in {"done", "analyzing"}
           /\ call' = [op |-> "stop", joined |-> threads[t].pc = "done"]
    /\ main_pc' = "stopped"
    /\ UNCHANGED <<threshold, stats, alert_queue, alert_log, is_running, threads,
                   packet_queue>>
    /\ UNCHANGED <<ipsVars, aeVars, mainVars, ctrVars>>

\* The capture thread putting a packet on the queue.
enqueue(packet) ==
    /\ stats.total_packets + Len(packet_queue) + Cardinality(InFlight) < MaxQueued
    /\ packet_queue' = Append(packet_queue, packet)
    /\ call' = [op |-> "enqueue"]
    /\ UNCHANGED <<threshold, stats, alert_queue, alert_log, is_running, threads,
                   main_pc>>
    /\ UNCHANGED <<ipsVars, aeVars, mainVars, ctrVars>>

\* _detection_loop: the test of "while self.is_running".
loop_check(t) ==
    /\ threads[t].pc = "check"
    /\ threads' = [threads EXCEPT ![t].pc = IF is_running THEN "get" ELSE "done"]
    /\ call' = [op |-> "loop_check", who |-> t]
    /\ UNCHANGED <<threshold, stats, alert_queue, alert_log, is_running,
                   packet_queue, main_pc>>
    /\ UNCHANGED <<ipsVars, aeVars, mainVars, ctrVars>>

\* _detection_loop: packet_queue.get(timeout=1), a packet or Empty.
loop_get(t) ==
    /\ threads[t].pc = "get"
    /\ IF packet_queue # <<>>
       THEN /\ threads' = [threads EXCEPT ![t] = [pc |-> "analyzing",
                                                  packet |-> Head(packet_queue)]]
            /\ packet_queue' = Tail(packet_queue)
       ELSE /\ threads' = [threads EXCEPT ![t].pc = "check"]
            /\ UNCHANGED packet_queue
    /\ call' = [op |-> "loop_get", who |-> t]
    /\ UNCHANGED <<threshold, stats, alert_queue, alert_log, is_running, main_pc>>
    /\ UNCHANGED <<ipsVars, aeVars, mainVars, ctrVars>>

\* _detection_loop: self.analyze_packet(packet); whatever it does, the loop
\* goes back to its test.
loop_analyze(t) ==
    /\ threads[t].pc = "analyzing"
    /\ LET packet == threads[t].packet
       IN  AnalyzePacket(packet.src_ip, packet.probability, packet.fault, t)
    /\ threads' = [threads EXCEPT ![t] = [pc |-> "check"]]
    /\ UNCHANGED <<threshold, is_running, packet_queue, main_pc>>
    /\ UNCHANGED <<ipsVars, aeVars, mainVars, ctrVars>>

\* The thresholds the model constructs the engine with (the default is 0.7).
Thresholds == {300, 700}

InitDE ==
    /\ threshold \in Thresholds
    /\ stats = [total_packets |-> 0, normal_packets |-> 0,
                malicious_packets |-> 0, alerts_generated |-> 0]
    /\ alert_queue = <<>>
    /\ alert_log = <<>>
    /\ is_running = FALSE
    /\ threads = <<>>
    /\ packet_queue = <<>>
    /\ main_pc = "ready"

InitCall == call = [op |-> "init", ip |-> EmptySrc, ret |-> TRUE, log |-> "",
                    save |-> "none"]

\* main.py as loaded: running = True, and no alert handed on yet.
InitMain ==
    /\ running = TRUE
    /\ handed = <<>>

\* -------------------------------------------------------- specifications

\* An IntrusionPrevention on Linux with a disk that takes every write.
Init ==
    /\ InitCall
    /\ InitMain
    /\ InitIPS
    /\ is_posix = TRUE
    /\ disk_faulty = FALSE
    /\ which_iptables = "found"
    /\ InitAE({[W |-> 5, K |-> 10, T |-> 700]})
    /\ InitCTR
    /\ InitDE
    /\ threshold = 700

Next ==
    \/ \E ip \in BlockArgs, severity \in CallSeverities : block_ip(ip, severity)
    \/ \E ip \in BlockArgs : unblock_ip(ip)
    \/ \E s \in AlertSources, severity \in AlertSeverities : process_alert(s, severity)
    \/ Restart

Spec == Init /\ [][Next]_vars

\* The AlertEngine alone, under either configuration.
InitAlertEngine ==
    /\ InitIPS
    /\ auto_block = FALSE
    /\ is_posix = TRUE
    /\ disk_faulty = FALSE
    /\ which_iptables = "found"
    /\ InitAE(AEConfigs)
    /\ InitCTR
    /\ InitDE
    /\ threshold = 700
    /\ InitCall
    /\ InitMain

NextAlertEngine ==
    \/ \E s \in AESources, attack \in Labels, confidence \in Confidences :
            process_flow(s, attack, confidence)
    \/ Tick

SpecAE == InitAlertEngine /\ [][NextAlertEngine]_vars

\* The DetectionEngine's analysis of packets.
InitDetection ==
    /\ InitIPS
    /\ auto_block = FALSE
    /\ is_posix = TRUE
    /\ disk_faulty = FALSE
    /\ which_iptables = "found"
    /\ InitAE({[W |-> 5, K |-> 10, T |-> 700]})
    /\ InitCTR
    /\ InitDE
    /\ InitCall
    /\ InitMain

NextDetection ==
    \/ \E s \in {ipA, ipB}, probability \in Probabilities,
          fault \in {"none", "extract"} :
            analyze_packet(s, probability, fault)
    \/ NewEngine

SpecDE == InitDetection /\ [][NextDetection]_vars

\* The DetectionEngine analysing packets whose probabilities lie on and just
\* below the severity boundaries.
SeverityProbabilities == {749, 750, 849, 850, 949, 950}

NextSeverity ==
    \E probability \in SeverityProbabilities : analyze_packet(ipA, probability, "none")

SpecSeverity == InitDetection /\ [][NextSeverity]_vars

\* The DetectionEngine with its consumer thread, started and stopped by the
\* main thread while the capture fills the queue.
Packets ==
    {[src_ip |-> ipA, probability |-> 960, fault |-> "none"],
     [src_ip |-> ipA, probability |-> 400, fault |-> "none"],
     [src_ip |-> ipA, probability |-> 960, fault |-> "classifier"],
     [src_ip |-> ipA, probability |-> 960, fault |-> "load"]}

InitLoop ==
    /\ InitIPS
    /\ auto_block = FALSE
    /\ is_posix = TRUE
    /\ disk_faulty = FALSE
    /\ which_iptables = "found"
    /\ InitAE({[W |-> 5, K |-> 10, T |-> 700]})
    /\ InitCTR
    /\ InitDE
    /\ InitCall
    /\ InitMain

NextLoop ==
    \/ start
    \/ stop_begin
    \/ stop_return
    \/ \E packet \in Packets : enqueue(packet)
    \/ \E t \in 1..Len(threads) : loop_check(t)
    \/ \E t \in 1..Len(threads) : loop_get(t)
    \/ \E t \in 1..Len(threads) : loop_analyze(t)

SpecLoop == InitLoop /\ [][NextLoop]_vars

\* The same with the scheduler running every consumer thread that can take a
\* step: get(timeout=1) returns within a second and analyze_packet returns.
FairLoop ==
    \A t \in 1..MaxThreads :
        /\ WF_vars(t <= Len(threads) /\ loop_check(t))
        /\ WF_vars(t <= Len(threads) /\ loop_get(t))
        /\ WF_vars(t <= Len(threads) /\ loop_analyze(t))

SpecLoopFair == InitLoop /\ [][NextLoop]_vars /\ FairLoop

\* run_interactive_mode's main loop next to the consumer thread.
\* signal_handler: running = False.
signal_handler ==
    /\ running
    /\ running' = FALSE
    /\ call' = [op |-> "signal_handler"]
    /\ UNCHANGED handed
    /\ UNCHANGED <<ipsVars, aeVars, ctrVars, deVars>>

\* "while running:" -- into the body, or on to the finally block, which
\* calls detection.stop().
main_check ==
    /\ main_pc = "check"
    /\ IF running
       THEN /\ main_pc' = "drain"
            /\ UNCHANGED is_running
       ELSE /\ is_running' = FALSE
            /\ main_pc' = "joining"
    /\ call' = [op |-> "main_check"]
    /\ UNCHANGED <<threshold, stats, alert_queue, alert_log, threads, packet_queue>>
    /\ UNCHANGED <<ipsVars, aeVars, ctrVars, mainVars>>

\* "while not detection.alert_queue.empty():" -- one alert taken and given to
\* prevention.process_alert, or the queue found empty.
main_drain ==
    /\ main_pc = "drain"
    /\ IF alert_queue # <<>>
       THEN LET alert == Head(alert_queue)
            IN  /\ ProcessAlert(alert.source_ip, alert.severity)
                /\ alert_queue' = Tail(alert_queue)
                /\ handed' = Append(handed, alert.alert_id)
                /\ UNCHANGED main_pc
       ELSE /\ main_pc' = "sleep"
            /\ call' = [op |-> "main_drain"]
            /\ UNCHANGED <<ipsVars, alert_queue, handed>>
    /\ UNCHANGED <<threshold, stats, alert_log, is_running, threads, packet_queue,
                   running>>
    /\ UNCHANGED <<aeVars, ctrVars>>

\* time.sleep(1), then back to the loop test.
main_sleep ==
    /\ main_pc = "sleep"
    /\ main_pc' = "check"
    /\ call' = [op |-> "main_sleep"]
    /\ UNCHANGED <<threshold, stats, alert_queue, alert_log, is_running, threads,
                   packet_queue>>
    /\ UNCHANGED <<ipsVars, aeVars, ctrVars, mainVars>>

\* The state after detection.start(packet_queue), at the first loop test.
InitMainLoop ==
    /\ InitCall
    /\ InitMain
    /\ InitIPS
    /\ is_posix = TRUE
    /\ disk_faulty = FALSE
    /\ which_iptables = "found"
    /\ InitAE({[W |-> 5, K |-> 10, T |-> 700]})
    /\ InitCTR
    /\ threshold = 700
    /\ stats = [total_packets |-> 0, normal_packets |-> 0,
                malicious_packets |-> 0, alerts_generated |-> 0]
    /\ alert_queue = <<>>
    /\ alert_log = <<>>
    /\ is_running = TRUE
    /\ threads = <<[pc |-> "check"]>>
    /\ packet_queue = <<>>
    /\ main_pc = "check"

NextMainLoop ==
    \/ signal_handler
    \/ main_check
    \/ main_drain
    \/ main_sleep
    \/ stop_return
    \/ \E packet \in Packets : enqueue(packet)
    \/ \E t \in 1..Len(threads) : loop_check(t)
    \/ \E t \in 1..Len(threads) : loop_get(t)
    \/ \E t \in 1..Len(threads) : loop_analyze(t)

SpecMain == InitMainLoop /\ [][NextMainLoop]_vars

\* CustomThreatResponse driving an IntrusionPrevention(auto_block=False), as
\* in examples/auto_blocking.py.
CtrAlert(ip, probability, severity, protocol, port) ==
    [source_ip |-> ip, probability |-> probability, severity |-> severity,
     protocol |-> protocol, destination_port |-> port,
     keys |-> {"source_ip", "probability", "severity", "protocol",
               "destination_port"},
     none |-> {}]

\* The alert without the keys in absent, and with None for the keys in empty.
Lacking(alert, absent, empty) ==
    [alert EXCEPT !.keys = @ \ absent, !.none = empty \ absent,
                  !.protocol = IF "protocol" \in absent \cup empty
                               THEN "" ELSE @,
                  !.destination_port = IF "destination_port" \in absent \cup empty
                                       THEN 0 ELSE @]

Metadata == {"protocol", "destination_port"}

\* Alerts with part or all of the protocol and port metadata absent or None.
BareAlerts ==
    {Lacking(CtrAlert(ipA, 650, "LOW", "TCP", 8080), absent, empty) :
        absent \in {{}, {"destination_port"}, Metadata},
        empty \in {{}, {"destination_port"}, Metadata}}

CtrAlerts ==
    {CtrAlert(ip, 650, "LOW", "UDP", 53) : ip \in {ipA, ipB, UnknownSrc}}
    \cup {CtrAlert(ip, 600, "MEDIUM", "UDP", 53) : ip \in {ipA, ipB}}
    \cup {CtrAlert(ip, 500, "HIGH", "UDP", 53) : ip \in {ipA}}
    \cup {CtrAlert(ip, 500, "CRITICAL", "UDP", 53) : ip \in {ipA}}
    \cup {CtrAlert(ip, 700, "CRITICAL", "TCP", 22) : ip \in {ipA, ipInject}}
    \cup BareAlerts

InitThreatResponse ==
    /\ InitIPS
    /\ auto_block = FALSE
    /\ is_posix = TRUE
    /\ disk_faulty = FALSE
    /\ which_iptables = "found"
    /\ InitAE({[W |-> 5, K |-> 10, T |-> 700]})
    /\ InitCTR
    /\ InitDE
    /\ threshold = 700
    /\ InitCall
    /\ InitMain

NextThreatResponse ==
    \/ \E alert \in CtrAlerts : ctr_process_alert(alert)
    \/ \E ip \in {ipA} : unblock_ip(ip)

SpecCTR == InitThreatResponse /\ [][NextThreatResponse]_vars

\* An IntrusionPrevention on a host whose disk can refuse a write and whose
\* `which iptables` can fail either way.
FaultArgs == {ipA, ipB, ipInject}

InitFaults ==
    /\ InitCall
    /\ InitMain
    /\ InitIPS
    /\ auto_block = FALSE
    /\ is_posix = TRUE
    /\ disk_faulty = TRUE
    /\ which_iptables \in WhichOutcomes
    /\ InitAE({[W |-> 5, K |-> 10, T |-> 700]})
    /\ InitCTR
    /\ InitDE
    /\ threshold = 700

NextFaults ==
    \/ \E ip \in FaultArgs, severity \in CallSeverities : block_ip(ip, severity)
    \/ \E ip \in FaultArgs : unblock_ip(ip)
    \/ Restart

SpecFaults == InitFaults /\ [][NextFaults]_vars

\* block_ip and unblock_ip followed through _save_blocked_ips, with another
\* process reading blocked_ips.txt at any moment.  open(file, 'w') empties
\* the file; the lines written stay in the file object's buffer until the
\* with-block closes it.
block_ip_open(ip, severity) ==
    /\ writer.pc = "idle"
    /\ ip \in ValidSources
    /\ ip \notin blocked_ips
    /\ Len(block_history) < MaxHistory
    /\ blocked_ips' = blocked_ips \cup {ip}
    /\ block_history' = Append(block_history, BlockRecord(ip, severity, ip_alert_count))
    /\ file_blocked_ips' = [exists |-> TRUE, text |-> <<>>]
    /\ writer' = [pc |-> "writing", op |-> "block_ip", ip |-> ip,
                  before |-> LoadedIps(file_blocked_ips)]
    /\ call' = [op |-> "open", ip |-> ip]
    /\ UNCHANGED <<auto_block, block_threshold, ip_alert_count, file_block_history,
                   is_posix, disk_faulty, iptables_calls, which_iptables>>
    /\ UNCHANGED <<aeVars, mainVars, ctrVars, deVars>>

unblock_ip_open(ip) ==
    /\ writer.pc = "idle"
    /\ ip \in ValidSources
    /\ ip \in blocked_ips
    /\ blocked_ips' = RemoveBlocked(blocked_ips, ip)
    /\ ip_alert_count' = [ip_alert_count EXCEPT ![ip] = 0]
    /\ file_blocked_ips' = [exists |-> TRUE, text |-> <<>>]
    /\ writer' = [pc |-> "writing", op |-> "unblock_ip", ip |-> ip,
                  before |-> LoadedIps(file_blocked_ips)]
    /\ call' = [op |-> "open", ip |-> ip]
    /\ UNCHANGED <<auto_block, block_threshold, block_history, file_block_history,
                   is_posix, disk_faulty, iptables_calls, which_iptables>>
    /\ UNCHANGED <<aeVars, mainVars, ctrVars, deVars>>

\* The rest of the call: the file is closed with its lines in it, the history
\* is written, the iptables step is taken and the call returns True.
save_close ==
    /\ writer.pc = "writing"
    /\ \E order \in Orderings(blocked_ips) :
        file_blocked_ips' = [exists |-> TRUE, text |-> BlockedIpsText(order)]
    /\ file_block_history' = [exists |-> TRUE, records |-> HistoryJson(block_history)]
    /\ iptables_calls' = IF is_posix THEN iptables_calls \cup {writer.ip}
                         ELSE iptables_calls
    /\ writer' = [pc |-> "idle"]
    /\ call' = [op |-> writer.op, ip |-> writer.ip, ret |-> TRUE,
                log |-> IF writer.op = "block_ip" THEN "blocked" ELSE "unblocked",
                save |-> "ok"]
    /\ UNCHANGED <<auto_block, block_threshold, blocked_ips, ip_alert_count,
                   block_history, is_posix, disk_faulty, which_iptables>>
    /\ UNCHANGED <<aeVars, mainVars, ctrVars, deVars>>

\* _load_blocked_ips in another process (a second IntrusionPrevention being
\* constructed): what it reads, next to the lists before and after the call
\* in progress.
load_blocked_ips ==
    /\ call' = [op |-> "load_blocked_ips",
                view |-> LoadedIps(file_blocked_ips),
                before |-> IF writer.pc = "writing" THEN writer.before
                           ELSE LoadedIps(file_blocked_ips),
                after |-> blocked_ips,
                during |-> writer.pc = "writing"]
    /\ UNCHANGED <<ipsVars, aeVars, mainVars, ctrVars, deVars>>

InitSave ==
    /\ InitCall
    /\ InitMain
    /\ InitIPS
    /\ is_posix = TRUE
    /\ disk_faulty = FALSE
    /\ which_iptables = "found"
    /\ InitAE({[W |-> 5, K |-> 10, T |-> 700]})
    /\ InitCTR
    /\ InitDE
    /\ threshold = 700

NextSave ==
    \/ \E ip \in {ipA, ipB}, severity \in CallSeverities : block_ip_open(ip, severity)
    \/ \E ip \in {ipA, ipB} : unblock_ip_open(ip)
    \/ save_close
    \/ load_blocked_ips

SpecSave == InitSave /\ [][NextSave]_vars

\* is_valid_ip as a function of its argument: the initial state holds the
\* argument, the one action applies the function to it.

\* The texts between the dots.
FieldTexts == {<<"0">>, <<"0", "1">>, <<"2", "5", "5">>, <<"2", "5", "6">>,
               <<"1", "2", "3", "4">>, <<>>}

\* What precedes the first field and what follows the last one.
Prefixes == {<<>>, <<"SP">>}

Suffixes == {<<>>, <<"NL">>, <<"SP">>, <<"NL", "NL">>, <<";", "x">>,
             <<".", "0">>}

RECURSIVE Join(_, _)
Join(pieces, sep) ==
    IF Len(pieces) = 0 THEN <<>>
    ELSE IF Len(pieces) = 1 THEN pieces[1]
    ELSE pieces[1] \o <<sep>> \o Join(Tail(pieces), sep)

Addresses ==
    {prefix \o Join(<<a, b, c, d>>, ".") \o suffix :
        prefix \in Prefixes, suffix \in Suffixes,
        a \in {<<"0">>, <<"1", "2", "3", "4">>}, b \in {<<"0">>, <<>>},
        c \in FieldTexts, d \in FieldTexts}
    \cup {Join(<<a, b, c>>, ".") \o suffix :
            suffix \in Suffixes, a \in FieldTexts, b \in {<<"0">>},
            c \in FieldTexts}

InitValidate ==
    /\ call \in {[op |-> "argument", s |-> s] : s \in Addresses}
    /\ InitMain
    /\ InitIPS
    /\ auto_block = FALSE
    /\ is_posix = TRUE
    /\ disk_faulty = FALSE
    /\ which_iptables = "found"
    /\ InitAE({[W |-> 5, K |-> 10, T |-> 700]})
    /\ InitCTR
    /\ InitDE
    /\ threshold = 700

validate ==
    /\ call.op = "argument"
    /\ call' = [op |-> "is_valid_ip", s |-> call.s, ret |-> is_valid_ip(call.s)]
    /\ UNCHANGED <<ipsVars, aeVars, ctrVars, deVars, mainVars>>

NextValidate == validate

SpecValidate == InitValidate /\ [][NextValidate]_vars

\* ------------------------------------------------------------------ claims

\* A well-formed address: four decimal fields of one to three digits, each
\* 0..255, separated by single dots, and nothing else.
WellFormedAddress(s) ==
    LET fields == Split(s, ".")
    IN  /\ Len(fields) = 4
        /\ \A i \in 1..4 :
              /\ Len(fields[i]) \in 1..3
              /\ AllDigits(fields[i])
              /\ DecVal(fields[i]) <= 255

WellFormedSources == {s \in Sources : WellFormedAddress(s)}

HistoryCount(history, ip) ==
    Cardinality({i \in 1..Len(history) : history[i].ip = ip})

\* C1: block_ip on a well-formed source that is not blocked succeeds, blocks
\* it and appends exactly one record for it; block_ip on a source that is
\* already blocked returns False as "already blocked" and changes nothing.
C1_BlockIdempotent ==
    [][(call'.op = "block_ip" /\ call'.ip \in WellFormedSources) =>
        IF call'.ip \in blocked_ips
        THEN /\ call'.ret = FALSE
             /\ call'.log = "already blocked"
             /\ UNCHANGED ipsVars
        ELSE /\ call'.ret = TRUE
             /\ blocked_ips' = blocked_ips \cup {call'.ip}
             /\ Len(block_history') = Len(block_history) + 1
             /\ SubSeq(block_history', 1, Len(block_history)) = block_history
             /\ HistoryCount(block_history', call'.ip)
                    = HistoryCount(block_history, call'.ip) + 1]_vars

\* C1 witness: the second of two block_ip calls for ipA in succession.
C1_Witness ==
    /\ call.op = "block_ip" /\ call.ip = ipA
    /\ call.ret = FALSE /\ call.log = "already blocked"
    /\ ipA \in blocked_ips
    /\ HistoryCount(block_history, ipA) = 1

\* C2: block_ip and unblock_ip of a malformed identifier return "invalid" and
\* change nothing, and the blocking capability has only ever been given
\* well-formed addresses.
C2_MalformedRejected ==
    /\ [](iptables_calls \subseteq WellFormedSources)
    /\ [][(call'.op \in {"block_ip", "unblock_ip"}
            /\ call'.ip \notin WellFormedSources) =>
           (call'.ret = FALSE /\ call'.log = "invalid" /\ UNCHANGED ipsVars)]_vars

\* C10: after a call has persisted the state, what a new IntrusionPrevention
\* loads from the two files is the blocked set and the history in memory.
C10_RoundTrip ==
    call.save = "ok" =>
        /\ LoadedIps(file_blocked_ips) = blocked_ips
        /\ LoadedHistory(file_block_history) = block_history

\* The recorded suspicious flows of a source with a timestamp in [t - W, t].
InWindowCount(s, t) ==
    Cardinality({i \in 1..Len(ae_events[s]) :
                    /\ ae_events[s][i] >= t - window_seconds
                    /\ ae_events[s][i] <= t})

Span(events) == events[Len(events)] - events[1]

\* C3: a process_flow call that records a suspicious flow at time t returns
\* an alert exactly when the source has at least flow_threshold suspicious
\* flows in [t - window_seconds, t], and the alert's count is that number;
\* with W = 5 and K = 10, ten flows within 4 time units give exactly one
\* alert, of count 10, and ten flows spread over 6 time units give none.
C3_ThresholdCorrect ==
    /\ (call.op = "process_flow" /\ call.recorded) =>
          LET n == InWindowCount(call.ip, call.t)
          IN  /\ call.alert.emitted <=> n >= flow_threshold
              /\ call.alert.emitted => call.alert.count = n
    /\ (window_seconds = 5 /\ flow_threshold = 10) =>
          \A s \in Sources :
              Len(ae_events[s]) = 10 =>
                  /\ Span(ae_events[s]) <= 4 =>
                        /\ ae_alerts[s] = 1
                        /\ (call.op = "process_flow" /\ call.recorded /\ call.ip = s)
                              => (call.alert.emitted /\ call.alert.count = 10)
                  /\ Span(ae_events[s]) >= 6 => ae_alerts[s] = 0

\* C3 witness: the tenth flow of a burst of ten within 4 time units.
C3_Witness ==
    /\ window_seconds = 5 /\ flow_threshold = 10
    /\ call.op = "process_flow" /\ call.recorded
    /\ Len(ae_events[call.ip]) = 10
    /\ Span(ae_events[call.ip]) = 4
    /\ call.alert.emitted /\ call.alert.count = 10
    /\ ae_alerts[call.ip] = 1

\* C4 as stated: after any process_flow call, every timestamp retained for
\* any source is at most window_seconds older than the time of the call.
C4_WindowInvariantAllSources ==
    call.op = "process_flow" =>
        \A s \in Sources : \A i \in 1..Len(suspicious_flows[s]) :
            call.t - suspicious_flows[s][i] <= window_seconds

\* C4 amended: after a process_flow call that records a suspicious flow of a
\* source, every timestamp retained for that source is at most
\* window_seconds older than the time of the call.
C4_WindowInvariant ==
    (call.op = "process_flow" /\ call.recorded) =>
        \A i \in 1..Len(suspicious_flows[call.ip]) :
            call.t - suspicious_flows[call.ip][i] <= window_seconds

\* C4 witness: a recording call that evicted two or more timestamps and
\* kept two or more.
C4_Witness ==
    /\ call.op = "process_flow" /\ call.recorded
    /\ Len(suspicious_flows[call.ip]) >= 2
    /\ Len(ae_events[call.ip]) >= Len(suspicious_flows[call.ip]) + 2
    /\ suspicious_flows[call.ip][1] < call.t

\* C5: a flow or packet classified as benign, or with a confidence below the
\* threshold, raises nothing; one classified as an attack with a confidence
\* equal to the threshold does.
C5_ConfidenceFilter ==
    /\ call.op = "process_flow" =>
          /\ (call.attack = "Benign" \/ call.confidence < confidence_threshold)
                => (~call.recorded /\ ~call.alert.emitted)
          /\ (call.attack # "Benign" /\ call.confidence = confidence_threshold)
                => call.recorded
    /\ (call.op = "analyze_packet" /\ call.ok) =>
          /\ (call.prediction = 0 \/ call.probability < threshold)
                => ~call.is_malicious
          /\ (call.prediction = 1 /\ call.probability = threshold)
                => call.is_malicious

\* C6: a scored alert adds its score to the cumulative score of its source
\* and to no other, and the decision is to block as soon as the cumulative
\* score is 50 or more.
C6_ScoreAccumulation ==
    [][(call'.op = "ctr_process_alert" /\ call'.scored) =>
        /\ ScoreOf(ip_threat_scores', call'.ip)
              = ScoreOf(ip_threat_scores, call'.ip) + call'.score
        /\ \A s \in Sources \ {call'.ip} :
              ScoreOf(ip_threat_scores', s) = ScoreOf(ip_threat_scores, s)
        /\ ScoreOf(ip_threat_scores', call'.ip) >= 50000 => call'.decision.block]_vars

\* C6 witness: scores 12, 15 and 25 have accumulated to 52 and the third
\* evaluation says block.
C6_Witness ==
    /\ call.op = "ctr_process_alert" /\ call.scored
    /\ call.ip = ipA /\ call.score = 25000
    /\ ctr_alert_count[ipA] = 3
    /\ ScoreOf(ip_threat_scores, ipA) = 52000
    /\ call.decision.block

\* C7: the decision is to block exactly when the cumulative score is 50 or
\* more, or the alert's own score is 40 or more, or the source has produced
\* 5 alerts or more.
C7_BlockDecision ==
    (call.op = "ctr_process_alert" /\ call.scored) =>
        (call.decision.block <=>
            \/ ScoreOf(ip_threat_scores, call.ip) >= 50000
            \/ call.score >= 40000
            \/ ctr_alert_count[call.ip] >= 5)

C9_UnblockResets ==
    (call.op = "unblock_ip" /\ call.ret = TRUE) =>
        /\ call.ip \notin blocked_ips
        /\ ip_alert_count[call.ip] = 0
        /\ ScoreOf(ip_threat_scores, call.ip) = 0
        /\ suspicious_flows[call.ip] = <<>>

\* C11: when writing the block-list fails during block or unblock, the call
\* reports the failure (it does not return success) and rolls the transition
\* back, so that after every block or unblock call the blocked set in memory
\* equals the block-list on disk.
C11_PersistenceRollback ==
    call.op \in {"block_ip", "unblock_ip"} =>
        /\ call.save \in {"ips_fail", "history_fail"} => call.ret = FALSE
        /\ LoadedIps(file_blocked_ips) = blocked_ips

NoOpLogs == {"already blocked", "not blocked"}
FailureLogs == {"invalid", "error"}

\* C12: block and unblock report a no-op (already blocked, not blocked) with a
\* result different from the one they report a failure (invalid source) with:
\* of two consecutive calls of the same operation, one a no-op and the other
\* a failure, the returned values differ.
C12_DistinctOutcomes ==
    [][(/\ call.op \in {"block_ip", "unblock_ip"}
        /\ call'.op = call.op
        /\ \/ call.log \in NoOpLogs /\ call'.log \in FailureLogs
           \/ call.log \in FailureLogs /\ call'.log \in NoOpLogs)
            => call'.ret # call.ret]_vars

\* C13: when the blocking capability fails (`which iptables` finds nothing or
\* cannot be run), block_ip of a valid unblocked source and unblock_ip of a
\* blocked one still return True, keep the transition and the record, and the
\* block-list they wrote is the new blocked set.
C13_EnforcementBestEffort ==
    [][\A ip \in ValidSources :
        /\ (/\ call'.op = "block_ip" /\ call'.ip = ip
            /\ ip \notin blocked_ips
            /\ which_iptables # "found")
              => /\ call'.ret = TRUE
                 /\ blocked_ips' = blocked_ips \cup {ip}
                 /\ Len(block_history') = Len(block_history) + 1
                 /\ block_history'[Len(block_history')].ip = ip
                 /\ ip \in iptables_calls'
                 /\ call'.save = "ok" => LoadedIps(file_blocked_ips') = blocked_ips'
        /\ (/\ call'.op = "unblock_ip" /\ call'.ip = ip
            /\ ip \in blocked_ips
            /\ which_iptables # "found")
              => /\ call'.ret = TRUE
                 /\ blocked_ips' = blocked_ips \ {ip}
                 /\ block_history' = block_history
                 /\ call'.save = "ok" => LoadedIps(file_blocked_ips') = blocked_ips'
      ]_vars

\* A block_ip that returned True on a host where `which` cannot be run, its
\* source blocked and the block-list written.
C13_Witness ==
    /\ call.op = "block_ip"
    /\ call.ret = TRUE
    /\ which_iptables = "raises"
    /\ call.ip \in blocked_ips
    /\ call.save = "ok"
    /\ LoadedIps(file_blocked_ips) = blocked_ips

\* C14: an observation on which the classifier (or the feature extraction)
\* fails is treated as benign: the consumer's step that analyses it adds no
\* alert to the queue or the log, counts nothing as malicious, touches no
\* window, score or blocked set, and leaves the consumer thread alive at its
\* loop test with the rest of the queue intact.
C14_FailOpen ==
    [][(call'.op = "analyze_packet" /\ call'.fault # "none") =>
            /\ alert_queue' = alert_queue
            /\ alert_log' = alert_log
            /\ stats'.alerts_generated = stats.alerts_generated
            /\ stats'.malicious_packets = stats.malicious_packets
            /\ suspicious_flows' = suspicious_flows
            /\ ip_threat_scores' = ip_threat_scores
            /\ blocked_ips' = blocked_ips
            /\ packet_queue' = packet_queue
            /\ call'.who \in LiveThreads'
            /\ threads'[call'.who].pc = "check"
      ]_vars

\* The consumer has just analysed a packet the classifier failed on, is back
\* at its loop test in a running engine, and another packet waits.
C14_Witness ==
    /\ call.op = "analyze_packet"
    /\ call.fault = "classifier"
    /\ call.who \in LiveThreads
    /\ threads[call.who].pc = "check"
    /\ is_running
    /\ packet_queue # <<>>
    /\ alert_queue = <<>>

\* C15: once stop() has returned (and until the next start()), no consumer
\* thread holds an observation it has not finished, and the statistics, the
\* alert queue and the alert log no longer change.
C15_StopGrace ==
    [][main_pc = "stopped" =>
            /\ InFlight = {}
            /\ main_pc' = "stopped" =>
                    /\ stats' = stats
                    /\ alert_queue' = alert_queue
                    /\ alert_log' = alert_log
      ]_vars

\* C16: at every moment at most one consumer thread is alive.
C16_SingleConsumer == Cardinality(LiveThreads) <= 1

\* C20: the alerts in the alert log carry strictly increasing alert_ids.
C20_AlertIdMonotonic ==
    \A i, j \in 1..Len(alert_log) :
        i < j => alert_log[i].alert_id < alert_log[j].alert_id

\* C17: a process that reads the block-list file while a block or unblock
\* call is in progress gets either the complete list from before the call or
\* the complete list from after it.
C17_AtomicWrites ==
    call.op = "load_blocked_ips" => call.view \in {call.before, call.after}

\* The recorded suspicious flows of source s that ended with at least
\* flow_threshold flows of s in the window, the flow itself included.
QualifyingCalls(s) ==
    {i \in 1..Len(ae_events[s]) :
        Cardinality({j \in 1..i :
            ae_events[s][i] - ae_events[s][j] <= window_seconds}) >= flow_threshold}

\* C18: every recorded suspicious flow that leaves its source's window at or
\* above flow_threshold returns an alert of its own, the first as the later
\* ones: the alerts returned for a source number as many as its calls that
\* ended with window length >= flow_threshold.
C18_NoSuppression ==
    /\ \A s \in Sources : ae_alerts[s] = Cardinality(QualifyingCalls(s))
    /\ (call.op = "process_flow" /\ call.recorded) =>
          (call.alert.emitted <=>
              Len(suspicious_flows[call.ip]) >= flow_threshold)

\* A flow recorded while the window was already at the threshold: the second
\* alert in a row for its source, with a count above the threshold.
C18_Witness ==
    /\ call.op = "process_flow" /\ call.recorded
    /\ call.alert.emitted
    /\ call.alert.count > flow_threshold
    /\ ae_alerts[call.ip] = 2

\* C19: with auto_block on, every well-formed source whose alert count (since
\* the start or its last unblock) has reached block_threshold is blocked, and
\* process_alert returns True exactly on the call that blocked its source;
\* with auto_block off process_alert blocks nothing.
C19_AutoBlockByCount ==
    /\ [](auto_block =>
            \A s \in WellFormedSources :
                ip_alert_count[s] >= block_threshold => s \in blocked_ips)
    /\ [][call'.op = "process_alert" =>
            /\ call'.ret = TRUE <=>
                  (call'.ip \notin blocked_ips /\ call'.ip \in blocked_ips')
            /\ ~auto_block => blocked_ips' = blocked_ips
         ]_vars

\* The process_alert that brought a source to the threshold and blocked it.
C19_Witness ==
    /\ auto_block
    /\ call.op = "process_alert"
    /\ call.ret = TRUE
    /\ ip_alert_count[call.ip] = block_threshold
    /\ call.ip \in blocked_ips
    /\ block_history[Len(block_history)].ip = call.ip

\* The severity the specification gives a confidence (in thousandths).
SeverityOf(confidence) ==
    CASE confidence >= 950 -> "CRITICAL"
      [] confidence >= 850 /\ confidence < 950 -> "HIGH"
      [] confidence >= 750 /\ confidence < 850 -> "MEDIUM"
      [] OTHER -> "LOW"

\* C21: every alert on the alert queue and in the alert log carries the
\* severity that its confidence alone determines: CRITICAL from 0.95, HIGH
\* from 0.85, MEDIUM from 0.75, LOW below.
C21_SeverityFunction ==
    /\ \A i \in 1..Len(alert_queue) :
          alert_queue[i].severity = SeverityOf(alert_queue[i].probability)
    /\ \A i \in 1..Len(alert_log) :
          alert_log[i].severity = SeverityOf(alert_log[i].probability)

\* Alerts of all four severities have been emitted, two of them for
\* confidences exactly on a boundary.
C21_Witness ==
    /\ Len(alert_queue) = 4
    /\ {alert_queue[i].severity : i \in 1..4} = Severities
    /\ {850, 950} \subseteq {alert_queue[i].probability : i \in 1..4}

IsPrefix(h, g) == Len(h) <= Len(g) /\ \A i \in 1..Len(h) : g[i] = h[i]

\* C22: the block history only grows, by exactly one record for each
\* transition of a source to blocked and by none otherwise (unblock,
\* process_alert below the threshold, a refused block, a restart from disk),
\* and every blocked source has a record in it.
C22_HistoryAppendOnly ==
    /\ [](\A ip \in blocked_ips : HistoryCount(block_history, ip) >= 1)
    /\ [][/\ IsPrefix(block_history, block_history')
          /\ Len(block_history') - Len(block_history)
                = Cardinality(blocked_ips' \ blocked_ips)
         ]_vars

\* The timestamps of a window, with t appended, that are not strictly older
\* than t - w.
NotOlderThan(timestamps, t, w) ==
    LET InWindow(ts) == t - ts <= w
    IN  SelectSeq(Append(timestamps, t), InWindow)

\* C23: a process_flow call that records a flow at time t leaves in its
\* source's window exactly the earlier timestamps that are at most
\* window_seconds old (one that is exactly window_seconds old included) and
\* t itself, and it is this window that is compared with flow_threshold.
C23_BoundaryInclusive ==
    [][(call'.op = "process_flow" /\ call'.recorded) =>
          LET kept == NotOlderThan(suspicious_flows[call'.ip], call'.t,
                                   window_seconds)
          IN  /\ suspicious_flows'[call'.ip] = kept
              /\ call'.alert.emitted <=> Len(kept) >= flow_threshold
              /\ call'.alert.emitted => call'.alert.count = Len(kept)
      ]_vars

\* An alert whose count reaches the threshold only with a timestamp that is
\* exactly window_seconds old.
C23_Witness ==
    /\ call.op = "process_flow" /\ call.recorded
    /\ suspicious_flows[call.ip][1] = call.t - window_seconds
    /\ call.alert.emitted
    /\ call.alert.count = flow_threshold
    /\ ae_events[call.ip] = suspicious_flows[call.ip]

\* C24: a process_flow call for one source, filtered out or recorded, with or
\* without an alert, leaves the window of every other source as it was, and
\* it returns an alert exactly when the flow is recorded and the source's own
\* recorded flows in [t - window_seconds, t] number flow_threshold or more.
C24_SourceIndependence ==
    [][call'.op = "process_flow" =>
          /\ \A b \in Sources \ {call'.ip} :
                suspicious_flows'[b] = suspicious_flows[b]
          /\ call'.alert.emitted <=>
                /\ call'.recorded
                /\ Cardinality({i \in 1..Len(ae_events'[call'.ip]) :
                       /\ ae_events'[call'.ip][i] >= call'.t - window_seconds
                       /\ ae_events'[call'.ip][i] <= call'.t}) >= flow_threshold
      ]_vars

\* An alert for one source while another source, with a flow in its window
\* at the same moment, has had none.
C24_Witness ==
    /\ call.op = "process_flow" /\ call.recorded /\ call.alert.emitted
    /\ \E b \in Sources \ {call.ip} :
          /\ suspicious_flows[b] # <<>>
          /\ suspicious_flows[b][Len(suspicious_flows[b])] = call.t
          /\ ae_alerts[b] = 0
    /\ Len(suspicious_flows[call.ip]) = flow_threshold

\* C25: once stop() has cleared is_running while a consumer thread is alive,
\* every consumer thread eventually leaves its loop and ends.
C25_ShutdownLiveness ==
    (~is_running /\ LiveThreads # {}) ~> (LiveThreads = {})

\* C26: the alerts given to process_alert are the alerts generated, each
\* once and in the order of their generation, and when the program has shut
\* down (stop() has returned with the consumer thread joined) every alert
\* that was generated has been given to process_alert.
C26_AlertHandOff ==
    /\ handed = [i \in 1..Len(handed) |-> i]
    /\ Len(handed) <= stats.alerts_generated
    /\ (call.op = "stop" /\ call.joined) =>
          Len(handed) = stats.alerts_generated

\* C27: the record a block appends says how the block came about: "manual"
\* when block_ip was called directly, "auto" when process_alert reached the
\* threshold and blocked the source, whatever auto_block is set to.
C27_MethodField ==
    [][Len(block_history') = Len(block_history) + 1 =>
          LET record == block_history'[Len(block_history')]
          IN  /\ call'.op = "block_ip" => record.method = "manual"
              /\ call'.op = "process_alert" => record.method = "auto"
      ]_vars

\* The weight the formula gives to a severity.
WeightOf(severity) ==
    CASE severity = "CRITICAL" -> 5
      [] severity = "HIGH" -> 3
      [] severity = "MEDIUM" -> 2
      [] severity = "LOW" -> 1

\* An alert carries the protocol and port metadata when both fields are
\* present and not empty.
CarriesMetadata(alert) == \A key \in Metadata : HasValue(alert, key)

\* C28: the score of an alert is confidence * 10 * weight(severity) plus a
\* context bonus, the bonus is 0 when the alert carries no protocol and port
\* metadata, and scoring never fails on an alert that lacks this metadata.
C28_ScoreFormula ==
    (/\ call.op = "ctr_process_alert"
     /\ ~Falsy(call.ip) /\ call.ip # UnknownSrc) =>
        /\ ~call.raised
        /\ call.scored
        /\ ~CarriesMetadata(call.alert) =>
              call.score = call.alert.probability * 10
                           * WeightOf(call.alert.severity)
        /\ call.score >= call.alert.probability * 10
                          * WeightOf(call.alert.severity)

\* C29: is_valid_ip accepts a string exactly when it is four decimal fields
\* of one to three digits, each 0..255, separated by single dots, with no
\* other character anywhere in it.
C29_ValidationExact ==
    call.op = "is_valid_ip" => (call.ret <=> WellFormedAddress(call.s))

\* The analysed packets that were counted neither normal nor malicious.
Uncounted(st) == st.total_packets - st.normal_packets - st.malicious_packets

\* C30: the detection statistics stay consistent over any sequence of
\* analyze_packet calls: normal_packets + malicious_packets <= total_packets,
\* the difference growing by one with each analysis that fails and by nothing
\* with one that does not (so it is 0 when none failed), alerts_generated <=
\* malicious_packets, and alerts_generated is the number of alerts put on the
\* alert queue.
C30_StatsConsistent ==
    /\ [](/\ Uncounted(stats) >= 0
          /\ stats.alerts_generated <= stats.malicious_packets
          /\ stats.alerts_generated = Len(alert_queue))
    /\ [][call'.op = "analyze_packet" =>
            /\ stats'.total_packets = stats.total_packets + 1
            /\ Uncounted(stats') = Uncounted(stats) + (IF call'.ok THEN 0 ELSE 1)
        ]_vars

\* After a failed analysis and a malicious one, an analysis has just ended.
C30_Witness ==
    /\ call.op = "analyze_packet"
    /\ Uncounted(stats) >= 1
    /\ stats.malicious_packets >= 1
    /\ stats.normal_packets >= 1

====
